---- MODULE Spec2Model ----
(***************************************************************************)
(* A model of SFErrorMetric (scripts/AGNMetrics.py): the structure         *)
(* function error metric evaluated on one dataSlice.                       *)
(*                                                                         *)
(* Units.  Timestamps and bin edges are whole days.  visitExposureTime is  *)
(* in tenths of a second (5.1 s = 51).  magErr is a whole number of an     *)
(* arbitrary magnitude unit.  Histogram counts after the 0.01 replacement  *)
(* are in hundredths (0.01 = 1, a count of k = 100 * k).                   *)
(*                                                                         *)
(* Real numbers.  The median of an even number of values is a half, and    *)
(* the median absolute deviation a quarter, so err_var_mu is kept as twice *)
(* its value and the MAD as four times its value.  The metric is the real  *)
(*      sum_b weight[b] * 2 * (mu + K * MAD / sqrt(count[b]))              *)
(* with K the positive constant of astropy's mad_std.  It is kept exactly, *)
(* as the integer coefficients of 1 and of K / sqrt(f), f square-free.     *)
(***************************************************************************)
EXTENDS Integers, Sequences, FiniteSets

\* ---------------------------------------------------------------- bounds
\* The longest dataSlice handed to run.
MaxObs == 3

\* ------------------------------------------------------ program constants
\* dataSlice['visitExposureTime'] > 5.1, in tenths of a second.
MinExposure == 51
\* np.where(result > 0, result, 0.01), in hundredths.
Regularized == 1
\* np.float16 has an 11 bit significand: integers below 2^11 are exact.
F16Exact == 2048
\* The largest finite np.float16.
F16Max == 65504
\* Stands for the np.float16 infinity: above every bin edge of the model.
F16Inf == 65536

\* ------------------------------------------------------------ input sets
\* Visits of 30 s at every time with an error of 1 or 2, a visit of 30 s at
\* the last time with the largest error, and a visit of exactly 5.1 s.
Times == {0, 1, 2050}
MagErrs == {1, 2, 3}
Observations ==
    [t : Times, exp : {300}, magErr : {1, 2}]
        \cup {[t |-> 2050, exp |-> 300, magErr |-> 3],
              [t |-> 1, exp |-> MinExposure, magErr |-> 3]}

BinsSet == {<<0, 2, 6>>, <<0, 1>>, <<2, 2, 2048>>, <<6, 2, 0>>}
WeightSet == {<<1, 1>>, <<2>>, <<1, 2, 3>>, <<-1, -2>>}

VARIABLES
    bins,          \* self.bins
    weight,        \* self.weight
    allGaps,       \* self.allGaps
    maf,           \* self.maf
    table,         \* the dataSlice argument of the call
    pc,            \* where the call is
    dataSlice,     \* the local dataSlice after the exposure filter
    times,         \* times
    dts,           \* dts
    result,        \* result of np.histogram
    new_result,    \* new_result, in hundredths
    err_var,       \* err_var
    err_var_mu,    \* twice err_var_mu
    err_var_mad,   \* four times the median absolute deviation of err_var
    ret            \* what the call returned or raised

selfVars == <<bins, weight, allGaps, maf>>
localVars == <<dataSlice, times, dts, result, new_result, err_var, err_var_mu, err_var_mad>>
metricVars == <<bins, weight, allGaps, maf, table, pc, dataSlice, times, dts, result,
                new_result, err_var, err_var_mu, err_var_mad, ret>>

\* The scripts that run the metric on every OpSim run of an FBS version
\* (scripts/SFError_RunWFD.py, scripts/SFError_RunDDF.py).
VARIABLES
    dbRuns,        \* dbRuns of run_fbs
    dpc,           \* where run_fbs is
    calls,         \* the calls of run_mg or run_sf_ddf made so far, in order
    failed_runs,   \* failed_runs of run_fbs
    idx,           \* how many elements the for loop over failed_runs has taken
    logfile        \* the lines written to the log

driverVars == <<dbRuns, dpc, calls, failed_runs, idx, logfile>>
vars == <<metricVars, driverVars>>

\* --------------------------------------------------------------- helpers
Abs(x) == IF x < 0 THEN -x ELSE x

RECURSIVE SumSeq(_)
SumSeq(s) == IF s = <<>> THEN 0 ELSE Head(s) + SumSeq(Tail(s))

RECURSIVE Concat(_)
Concat(ss) == IF ss = <<>> THEN <<>> ELSE Head(ss) \o Concat(Tail(ss))

\* np.sort: ascending, by insertion.
RECURSIVE Insert(_, _)
Insert(x, s) ==
    IF s = <<>> THEN <<x>>
    ELSE IF x <= Head(s) THEN <<x>> \o s
    ELSE <<Head(s)>> \o Insert(x, Tail(s))

RECURSIVE Sort(_)
Sort(s) == IF s = <<>> THEN <<>> ELSE Insert(Head(s), Sort(Tail(s)))

\* ------------------------------------------------- the steps of run
\* A filter that keeps an exposure of exactly 5.1 s: what C2 rules out.
ExposureFilterInclusive(slice) == SelectSeq(slice, LAMBDA o : o.exp >= MinExposure)
\* dataSlice[dataSlice['visitExposureTime'] > 5.1]
ExposureFilter(slice) == SelectSeq(slice, LAMBDA o : o.exp > MinExposure)

\* A size test that is off by one: what C1 rules out.
TooFewOffByOne(slice) == Len(slice) <= 2
\* if dataSlice.size < 2
TooFew(slice) == Len(slice) < 2

\* The times in the order of the rows: what C4 rules out.
UnsortedTimes(slice) == [i \in 1..Len(slice) |-> slice[i].t]
\* np.sort(dataSlice[self.timesCol])
SortedTimes(slice) == Sort([i \in 1..Len(slice) |-> slice[i].t])

\* astype(np.float16) of a whole number d >= 0: round to an 11 bit
\* significand, ties to the even significand, overflow to infinity.
RECURSIVE F16Step(_)
F16Step(d) == IF d < F16Exact THEN 1 ELSE 2 * F16Step(d \div 2)

ToFloat16(d) ==
    LET step == F16Step(d)
        q == d \div step
        r == d % step
        rounded == IF 2 * r < step THEN q * step
                   ELSE IF 2 * r > step THEN (q + 1) * step
                   ELSE IF q % 2 = 0 THEN q * step
                   ELSE (q + 1) * step
    IN  IF rounded > F16Max THEN F16Inf ELSE rounded

\* The vectorized method: dt_matrix[r][c] = times[c] - times[r], the
\* entries > 0 in row-major order, then astype(np.float16).
VectorizedGaps(ts) ==
    LET n == Len(ts)
        Row(r) == LET cols == SelectSeq([c \in 1..n |-> c], LAMBDA c : ts[c] - ts[r] > 0)
                  IN  [k \in 1..Len(cols) |-> ToFloat16(ts[cols[k]] - ts[r])]
    IN  Concat([r \in 1..n |-> Row(r)])

\* The original MAF method: for i in 1..n-1, (times - np.roll(times, i))[i:],
\* concatenated, then astype(np.float16).
MafGaps(ts) ==
    LET n == Len(ts)
        Lag(i) == [k \in 1..(n - i) |-> ToFloat16(ts[k + i] - ts[k])]
    IN  Concat([i \in 1..(n - 1) |-> Lag(i)])

\* np.diff(times)
ConsecutiveGaps(ts) == [k \in 1..(Len(ts) - 1) |-> ts[k + 1] - ts[k]]

\* lines 58-72: the gaps the flags select.
Gaps(ts, all, orig) ==
    IF all THEN (IF ~orig THEN VectorizedGaps(ts) ELSE MafGaps(ts))
    ELSE ConsecutiveGaps(ts)

\* np.histogram raises ValueError when an edge is above the next one:
\* np.any(bin_edges[:-1] > bin_edges[1:]).
BinsRejected(edges) == \E i \in 1..(Len(edges) - 1) : edges[i] > edges[i + 1]

\* a.searchsorted(v, 'left') and a.searchsorted(v, 'right') on the sorted data.
SearchLeft(a, v) == Cardinality({i \in 1..Len(a) : a[i] < v})
SearchRight(a, v) == Cardinality({i \in 1..Len(a) : a[i] <= v})

\* A histogram whose last bin is half-open like the others: what C6 rules out.
HistogramHalfOpen(a, edges) ==
    LET m == Len(edges)
        cum == [i \in 1..m |-> SearchLeft(a, edges[i])]
    IN  [b \in 1..(m - 1) |-> cum[b + 1] - cum[b]]

\* np.histogram with an array of edges: the cumulative counts
\* searchsorted(edges[:-1], 'left') ++ searchsorted(edges[-1:], 'right'),
\* then np.diff.
Histogram(a, edges) ==
    LET m == Len(edges)
        cum == [i \in 1..m |-> IF i < m THEN SearchLeft(a, edges[i])
                                        ELSE SearchRight(a, edges[i])]
    IN  [b \in 1..(m - 1) |-> cum[b + 1] - cum[b]]

\* A replacement that leaves a count of 0 in place: what C5 rules out.
RegularizeKeepsZero(res) == [b \in 1..Len(res) |-> IF res[b] >= 0 THEN 100 * res[b] ELSE Regularized]
\* np.where(result > 0, result, 0.01), in hundredths.
Regularize(res) == [b \in 1..Len(res) |-> IF res[b] > 0 THEN 100 * res[b] ELSE Regularized]

\* dataSlice['magErr'] without the square: what C11 rules out.
ErrVarNotSquared(slice) == [i \in 1..Len(slice) |-> slice[i].magErr]

\* dataSlice['magErr']**2
ErrVar(slice) == [i \in 1..Len(slice) |-> slice[i].magErr * slice[i].magErr]

\* The lower middle value for an even number of values too: what C12 rules out.
Median2Lower(x) ==
    LET s == Sort(x)
        n == Len(s)
    IN  2 * s[(n + 1) \div 2]

\* The middle position of the values as they come, unsorted: what C19 rules out.
Median2Unsorted(x) ==
    LET n == Len(x)
    IN  IF n % 2 = 1 THEN 2 * x[(n + 1) \div 2] ELSE x[n \div 2] + x[n \div 2 + 1]

\* Twice np.median(x): the middle of the sorted values, or the sum of the
\* two middle ones.
Median2(x) ==
    LET s == Sort(x)
        n == Len(s)
    IN  IF n % 2 = 1 THEN 2 * s[(n + 1) \div 2] ELSE s[n \div 2] + s[n \div 2 + 1]

\* Four times the median absolute deviation median(|x - median(x)|), the
\* quantity mad_std multiplies by K.
Mad4(x) ==
    LET mu2 == Median2(x)
    IN  Median2([i \in 1..Len(x) |-> Abs(2 * x[i] - mu2)])

\* ------------------------------------------------------ the metric value
\* The most gaps a dataSlice gives, hence the largest count of a bin.
MaxPairs == (MaxObs * (MaxObs - 1)) \div 2

\* count = SquarePart(count)^2 * FreePart(count), FreePart square-free.
SquarePart(k) == CHOOSE s \in 1..k : /\ k % (s * s) = 0
                                     /\ \A u \in (s + 1)..k : k % (u * u) # 0
FreePart(k) == k \div (SquarePart(k) * SquarePart(k))
FreeParts == {FreePart(k) : k \in 1..MaxPairs} \cup {1}

\* The least common multiple of the SquareParts of the counts.
RECURSIVE Product(_)
Product(n) == IF n <= 1 THEN 1 ELSE n * Product(n - 1)
DividedByRoots(m) == \A k \in 1..MaxPairs : m % SquarePart(k) = 0
RootDen == CHOOSE m \in 1..Product(MaxPairs) :
               DividedByRoots(m) /\ \A j \in 1..(m - 1) : ~DividedByRoots(j)

\* A real (rat + K * sum_f irr[f] / sqrt(f)) / (2 * RootDen).
ZeroMetric == [rat |-> 0, irr |-> [f \in FreeParts |-> 0]]
MetricAdd(a, b) == [rat |-> a.rat + b.rat, irr |-> [f \in FreeParts |-> a.irr[f] + b.irr[f]]]
\* Sound orders on these reals: K / sqrt(f) > 0 for every f.
MetricLeq(a, b) == a.rat <= b.rat /\ \A f \in FreeParts : a.irr[f] <= b.irr[f]
MetricLess(a, b) == MetricLeq(a, b) /\ a # b

\* A division by the count instead of its square root: what C7 rules out.
RootCoefNoSqrt(c) == IF c = Regularized THEN 100 * RootDen ELSE RootDen \div (c \div 100)

\* 1 / sqrt(count) = RootCoef(count) / (RootDen * sqrt(RootFree(count))),
\* count in hundredths: 1 / sqrt(0.01) = 10.
RootCoef(c) == IF c = Regularized THEN 10 * RootDen ELSE RootDen \div SquarePart(c \div 100)
RootFree(c) == IF c = Regularized THEN 1 ELSE FreePart(c \div 100)

\* err_var_mu - err_var_std / np.sqrt(count), a sign slip: what C10 rules out.
TermMinus(w, mu2, mad4, c) ==
    [rat |-> 2 * RootDen * w * mu2,
     irr |-> [f \in FreeParts |-> IF f = RootFree(c) THEN -(w * mad4 * RootCoef(c)) ELSE 0]]

\* One entry of sf_var_dt * self.weight:
\* w * 2 * (err_var_mu + err_var_std / np.sqrt(count)), err_var_std = K * MAD.
Term(w, mu2, mad4, c) ==
    [rat |-> 2 * RootDen * w * mu2,
     irr |-> [f \in FreeParts |-> IF f = RootFree(c) THEN w * mad4 * RootCoef(c) ELSE 0]]

\* numpy broadcasting of a (nb,) array with a (nw,) array.
Broadcasts(nb, nw) == nb = nw \/ nb = 1 \/ nw = 1
BroadcastLen(nb, nw) == IF nb >= nw THEN nb ELSE nw
BroadcastAt(s, i) == IF Len(s) = 1 THEN s[1] ELSE s[i]

\* sf_var_dt * self.weight, one term per broadcast position.
WeightedTerms(counts, w, mu2, mad4) ==
    [i \in 1..BroadcastLen(Len(counts), Len(w)) |->
        Term(BroadcastAt(w, i), mu2, mad4, BroadcastAt(counts, i))]

\* np.sum
RECURSIVE MetricSum(_)
MetricSum(ts) == IF ts = <<>> THEN ZeroMetric ELSE MetricAdd(Head(ts), MetricSum(Tail(ts)))

\* lines 88-89: np.sum(sf_var_dt * self.weight)
SfVarMetric(counts, w, mu2, mad4) == MetricSum(WeightedTerms(counts, w, mu2, mad4))

\* What a call gives back: self.badval, a ValueError, or the metric.
NoReturn == [kind |-> "none", val |-> ZeroMetric]
BadVal == [kind |-> "badval", val |-> ZeroMetric]
BinsError == [kind |-> "ValueError_bins", val |-> ZeroMetric]
ShapeError == [kind |-> "ValueError_shape", val |-> ZeroMetric]
Value(m) == [kind |-> "value", val |-> m]

\* run as one function of the dataSlice and the metric's fields.
Run(slice, edges, w, all, orig) ==
    LET kept == ExposureFilter(slice)
        gaps == Gaps(SortedTimes(kept), all, orig)
        counts == Regularize(Histogram(gaps, edges))
        ev == ErrVar(kept)
    IN  IF TooFew(kept) THEN BadVal
        ELSE IF BinsRejected(edges) THEN BinsError
        ELSE IF ~Broadcasts(Len(counts), Len(w)) THEN ShapeError
        ELSE Value(SfVarMetric(counts, w, Median2(ev), Mad4(ev)))

\* ------------------------------------------------------------ the machine
\* __init__ stores its arguments; no call is in progress.
\* No script is running.
DriverAtRest ==
    /\ dbRuns = <<>>
    /\ dpc = "off"
    /\ calls = <<>>
    /\ failed_runs = <<>>
    /\ idx = 0
    /\ logfile = <<>>

Init ==
    /\ DriverAtRest
    /\ bins \in BinsSet
    /\ weight \in WeightSet
    /\ allGaps \in BOOLEAN
    /\ maf \in BOOLEAN
    /\ table = <<>>
    /\ pc = "idle"
    /\ dataSlice = <<>>
    /\ times = <<>>
    /\ dts = <<>>
    /\ result = <<>>
    /\ new_result = <<>>
    /\ err_var = <<>>
    /\ err_var_mu = 0
    /\ err_var_mad = 0
    /\ ret = NoReturn

\* The slicer collects one more visit into the dataSlice it will hand to run.
Observe ==
    /\ pc = "idle"
    /\ Len(table) < MaxObs
    /\ \E o \in Observations : table' = Append(table, o)
    /\ UNCHANGED <<driverVars, selfVars, pc, localVars, ret>>

\* lines 48-52: run is called, removes the short exposures, and with fewer
\* than 2 visits left returns self.badval.
ReturnBadval ==
    /\ pc = "idle"
    /\ dataSlice' = ExposureFilter(table)
    /\ TooFew(dataSlice')
    /\ ret' = BadVal
    /\ pc' = "returned"
    /\ UNCHANGED <<driverVars, selfVars, table, times, dts, result, new_result, err_var,
                   err_var_mu, err_var_mad>>

\* The exposure filter applied to the caller's table itself: what C13 rules out.
ComputeGapsFiltersTable ==
    /\ pc = "idle"
    /\ dataSlice' = ExposureFilter(table)
    /\ ~TooFew(dataSlice')
    /\ table' = dataSlice'
    /\ times' = SortedTimes(dataSlice')
    /\ dts' = Gaps(times', allGaps, maf)
    /\ pc' = "gaps"
    /\ UNCHANGED <<driverVars, selfVars, result, new_result, err_var,
                   err_var_mu, err_var_mad, ret>>

\* lines 48-72: run is called, removes the short exposures, and with 2 or
\* more visits left sorts the times and takes the gaps.
ComputeGaps ==
    /\ pc = "idle"
    /\ dataSlice' = ExposureFilter(table)
    /\ ~TooFew(dataSlice')
    /\ times' = SortedTimes(dataSlice')
    /\ dts' = Gaps(times', allGaps, maf)
    /\ pc' = "gaps"
    /\ UNCHANGED <<driverVars, selfVars, table, result, new_result, err_var,
                   err_var_mu, err_var_mad, ret>>

\* line 76: np.histogram raises on decreasing edges.
HistogramRaises ==
    /\ pc = "gaps"
    /\ BinsRejected(bins)
    /\ ret' = BinsError
    /\ pc' = "returned"
    /\ UNCHANGED <<driverVars, selfVars, table, localVars>>

\* lines 76-85: bin the gaps, replace the empty counts, and take the median
\* and the MAD of the squared errors.
BinGaps ==
    /\ pc = "gaps"
    /\ ~BinsRejected(bins)
    /\ result' = Histogram(dts, bins)
    /\ new_result' = Regularize(result')
    /\ err_var' = ErrVar(dataSlice)
    /\ err_var_mu' = Median2(err_var')
    /\ err_var_mad' = Mad4(err_var')
    /\ pc' = "binned"
    /\ UNCHANGED <<driverVars, selfVars, table, dataSlice, times, dts, ret>>

\* lines 88-89: the product with self.weight raises when the shapes do not broadcast.
WeightsRaise ==
    /\ pc = "binned"
    /\ ~Broadcasts(Len(new_result), Len(weight))
    /\ ret' = ShapeError
    /\ pc' = "returned"
    /\ UNCHANGED <<driverVars, selfVars, table, localVars>>

\* The product stored back into self.weight: what C14 rules out.
ReturnMetricScalesWeight ==
    /\ pc = "binned"
    /\ Broadcasts(Len(new_result), Len(weight))
    /\ ret' = Value(SfVarMetric(new_result, weight, err_var_mu, err_var_mad))
    /\ weight' = [i \in 1..Len(weight) |-> 2 * weight[i]]
    /\ pc' = "returned"
    /\ UNCHANGED <<driverVars, bins, allGaps, maf, table, localVars>>

\* lines 88-91: the weighted sum is returned.
ReturnMetric ==
    /\ pc = "binned"
    /\ Broadcasts(Len(new_result), Len(weight))
    /\ ret' = Value(SfVarMetric(new_result, weight, err_var_mu, err_var_mad))
    /\ pc' = "returned"
    /\ UNCHANGED <<driverVars, selfVars, table, localVars>>

\* The call is over: its locals are gone, the metric object is ready for
\* the next dataSlice.
NextCall ==
    /\ pc = "returned"
    /\ table' = <<>>
    /\ pc' = "idle"
    /\ dataSlice' = <<>>
    /\ times' = <<>>
    /\ dts' = <<>>
    /\ result' = <<>>
    /\ new_result' = <<>>
    /\ err_var' = <<>>
    /\ err_var_mu' = 0
    /\ err_var_mad' = 0
    /\ ret' = NoReturn
    /\ UNCHANGED <<driverVars, selfVars>>

Next ==
    \/ Observe
    \/ ReturnBadval
    \/ ComputeGaps
    \/ HistogramRaises
    \/ BinGaps
    \/ WeightsRaise
    \/ ReturnMetric
    \/ NextCall

Spec == Init /\ [][Next]_vars

\* The caller hands the same dataSlice to run once more, keeping the answer
\* it has.
CallAgain ==
    /\ pc = "returned"
    /\ pc' = "idle"
    /\ dataSlice' = <<>>
    /\ times' = <<>>
    /\ dts' = <<>>
    /\ result' = <<>>
    /\ new_result' = <<>>
    /\ err_var' = <<>>
    /\ err_var_mu' = 0
    /\ err_var_mad' = 0
    /\ UNCHANGED <<driverVars, selfVars, table, ret>>

\* The slicer adds to a dataSlice that has not been handed to run yet.
ObserveFresh == ret = NoReturn /\ Observe

\* Calls on one metric object, some of them repeated on the same dataSlice.
NextRepeat ==
    \/ ObserveFresh
    \/ ReturnBadval
    \/ ComputeGaps
    \/ HistogramRaises
    \/ BinGaps
    \/ WeightsRaise
    \/ ReturnMetric
    \/ NextCall
    \/ CallAgain

SpecRepeat == Init /\ [][NextRepeat]_vars

\* The steps of a call give the answer run gives as one function.
RunAgrees == pc = "returned" => ret = Run(table, bins, weight, allGaps, maf)

\* ------------------------------------------------------------ the drivers
\* The most OpSim databases in dbDir, and their run names.
MaxRuns == 3
RunNames == {"a", "b", "c"}

\* show_opsims: the run names of the *.db files of dbDir, each once, in
\* the order glob gives them.
RunLists ==
    {s \in UNION {[1..n -> RunNames] : n \in 0..MaxRuns} :
        \A i, j \in 1..Len(s) : i # j => s[i] # s[j]}

\* The metric the scripts put into the bundles runs inside runAll; its
\* calls are not followed while a script runs.
MetricAtRest ==
    /\ bins = <<0, 2, 6>>
    /\ weight = <<1, 1>>
    /\ allGaps = TRUE
    /\ maf = FALSE
    /\ table = <<>>
    /\ pc = "idle"
    /\ dataSlice = <<>>
    /\ times = <<>>
    /\ dts = <<>>
    /\ result = <<>>
    /\ new_result = <<>>
    /\ err_var = <<>>
    /\ err_var_mu = 0
    /\ err_var_mad = 0
    /\ ret = NoReturn

\* A call of run_mg or run_sf_ddf that has executed rt = '': nothing is
\* connected yet.
NewCall(run) ==
    [run |-> run, at |-> "start", rt |-> "", opSimDb |-> "none", resultDb |-> "none"]

\* The calls Parallel makes, one per run, and the list of their results.
ParallelCalls == [i \in 1..Len(dbRuns) |-> NewCall(dbRuns[i])]
ParallelResults == [i \in 1..Len(dbRuns) |-> calls[i].rt]
AllReturned == \A k \in 1..Len(calls) : calls[k].at = "returned"

\* list.remove: the list without the first element equal to x.
RECURSIVE Remove(_, _)
Remove(s, x) ==
    IF s = <<>> THEN <<>>
    ELSE IF Head(s) = x THEN Tail(s)
    ELSE <<Head(s)>> \o Remove(Tail(s), x)

\* connect_dbs succeeds: an OpsimDatabase and a ResultsDb are open.
ConnectDbs(k) ==
    /\ dpc \in {"parallel", "rerunning"}
    /\ calls[k].at = "start"
    /\ calls' = [calls EXCEPT ![k].at = "connected",
                              ![k].opSimDb = "open",
                              ![k].resultDb = "open"]
    /\ UNCHANGED <<metricVars, dbRuns, dpc, failed_runs, idx, logfile>>

\* connect_dbs raises, in OpsimDatabase or, the OpsimDatabase open, in
\* ResultsDb; the except block of the caller sets rt = run.
ConnectDbsRaises(k) ==
    /\ dpc \in {"parallel", "rerunning"}
    /\ calls[k].at = "start"
    /\ \E opened \in {"none", "open"} :
           calls' = [calls EXCEPT ![k].at = "returned",
                                  ![k].opSimDb = opened,
                                  ![k].rt = calls[k].run]
    /\ UNCHANGED <<metricVars, dbRuns, dpc, failed_runs, idx, logfile>>

\* run_mg lines 42-57: runAll succeeds, both dbs are closed, '' is returned.
MgRunAll(k) ==
    /\ dpc \in {"parallel", "rerunning"}
    /\ calls[k].at = "connected"
    /\ calls' = [calls EXCEPT ![k].at = "returned",
                              ![k].opSimDb = "closed",
                              ![k].resultDb = "closed"]
    /\ UNCHANGED <<metricVars, dbRuns, dpc, failed_runs, idx, logfile>>

\* run_mg lines 42-57: MetricBundleGroup or runAll raises, the except block
\* sets rt = run, the run name is returned.
MgRunAllRaises(k) ==
    /\ dpc \in {"parallel", "rerunning"}
    /\ calls[k].at = "connected"
    /\ calls' = [calls EXCEPT ![k].at = "returned", ![k].rt = calls[k].run]
    /\ UNCHANGED <<metricVars, dbRuns, dpc, failed_runs, idx, logfile>>

\* run_fbs line 114 of the WFD script: the non-empty results of Parallel.
MgCheckFailed ==
    /\ dpc = "parallel"
    /\ AllReturned
    /\ failed_runs' = SelectSeq(ParallelResults, LAMBDA x : x # "")
    /\ idx' = 0
    /\ dpc' = "rerun"
    /\ UNCHANGED <<metricVars, dbRuns, calls, logfile>>

\* lines 117-121: the for loop takes its next element of failed_runs and
\* calls run_mg on it.
RerunStart ==
    /\ dpc = "rerun"
    /\ idx < Len(failed_runs)
    /\ idx' = idx + 1
    /\ calls' = Append(calls, NewCall(failed_runs[idx + 1]))
    /\ dpc' = "rerunning"
    /\ UNCHANGED <<metricVars, dbRuns, failed_runs, logfile>>

\* line 122: run_mg has returned, what it returned is dropped, and the run
\* is removed from the list the loop is iterating.
RerunRemove ==
    /\ dpc = "rerunning"
    /\ calls[Len(calls)].at = "returned"
    /\ failed_runs' = Remove(failed_runs, calls[Len(calls)].run)
    /\ dpc' = "rerun"
    /\ UNCHANGED <<metricVars, dbRuns, calls, idx, logfile>>

\* The for loop finds no element at its position.
RerunDone ==
    /\ dpc = "rerun"
    /\ idx >= Len(failed_runs)
    /\ dpc' = "log"
    /\ UNCHANGED <<metricVars, dbRuns, calls, failed_runs, idx, logfile>>

\* lines 126-129: what is left of failed_runs is appended to the log.
MgWriteLog ==
    /\ dpc = "log"
    /\ Len(failed_runs) > 0
    /\ logfile' = logfile \o failed_runs
    /\ dpc' = "done"
    /\ UNCHANGED <<metricVars, dbRuns, calls, failed_runs, idx>>

\* line 126: nothing is left, the log is not opened.
MgNoLog ==
    /\ dpc = "log"
    /\ Len(failed_runs) = 0
    /\ dpc' = "done"
    /\ UNCHANGED <<metricVars, dbRuns, calls, failed_runs, idx, logfile>>

InitWFD ==
    /\ MetricAtRest
    /\ dbRuns \in RunLists
    /\ dpc = "parallel"
    /\ calls = ParallelCalls
    /\ failed_runs = <<>>
    /\ idx = 0
    /\ logfile = <<>>

NextWFD ==
    \/ \E k \in 1..Len(calls) : ConnectDbs(k)
    \/ \E k \in 1..Len(calls) : ConnectDbsRaises(k)
    \/ \E k \in 1..Len(calls) : MgRunAll(k)
    \/ \E k \in 1..Len(calls) : MgRunAllRaises(k)
    \/ MgCheckFailed
    \/ RerunStart
    \/ RerunRemove
    \/ RerunDone
    \/ MgWriteLog
    \/ MgNoLog

SpecWFD == InitWFD /\ [][NextWFD]_vars

\* run_sf_ddf lines 50-53: the run has no DD proposal, rt = '' is returned.
DdfNoDDF(k) ==
    /\ dpc = "parallel"
    /\ calls[k].at = "connected"
    /\ calls' = [calls EXCEPT ![k].at = "returned"]
    /\ UNCHANGED <<metricVars, dbRuns, dpc, failed_runs, idx, logfile>>

\* run_sf_ddf lines 50-112: the run has DD proposals, the bundles are made,
\* runAll succeeds, both dbs are closed, '' is returned.
DdfRunAll(k) ==
    /\ dpc = "parallel"
    /\ calls[k].at = "connected"
    /\ calls' = [calls EXCEPT ![k].at = "returned",
                              ![k].opSimDb = "closed",
                              ![k].resultDb = "closed"]
    /\ UNCHANGED <<metricVars, dbRuns, dpc, failed_runs, idx, logfile>>

\* run_sf_ddf lines 50-112: fetchPropInfo, ddfInfo, MetricBundleGroup or
\* runAll raises, the except block sets rt = run, the run name is returned.
DdfRunAllRaises(k) ==
    /\ dpc = "parallel"
    /\ calls[k].at = "connected"
    /\ calls' = [calls EXCEPT ![k].at = "returned", ![k].rt = calls[k].run]
    /\ UNCHANGED <<metricVars, dbRuns, dpc, failed_runs, idx, logfile>>

\* run_fbs lines 141-147 of the DDF script: the non-empty results of
\* Parallel are appended to the log.
DdfWriteLog ==
    /\ dpc = "parallel"
    /\ AllReturned
    /\ failed_runs' = SelectSeq(ParallelResults, LAMBDA x : x # "")
    /\ logfile' = logfile \o failed_runs'
    /\ dpc' = "done"
    /\ UNCHANGED <<metricVars, dbRuns, calls, idx>>

InitDDF ==
    /\ MetricAtRest
    /\ dbRuns \in RunLists
    /\ dpc = "parallel"
    /\ calls = ParallelCalls
    /\ failed_runs = <<>>
    /\ idx = 0
    /\ logfile = <<>>

NextDDF ==
    \/ \E k \in 1..Len(calls) : ConnectDbs(k)
    \/ \E k \in 1..Len(calls) : ConnectDbsRaises(k)
    \/ \E k \in 1..Len(calls) : DdfNoDDF(k)
    \/ \E k \in 1..Len(calls) : DdfRunAll(k)
    \/ \E k \in 1..Len(calls) : DdfRunAllRaises(k)
    \/ DdfWriteLog

SpecDDF == InitDDF /\ [][NextDDF]_vars

\* ------------------------------------------------------------ the claims
\* The rows of the table that pass the exposure filter, stated on the
\* table itself, and what the call has computed so far.
Retained == {i \in 1..Len(table) : table[i].exp > 51}
RetainedRows == SelectSeq(table, LAMBDA o : o.exp > 51)
Called == pc # "idle"
HasGaps == pc \in {"gaps", "binned"} \/ (pc = "returned" /\ ret.kind # "badval")
HasCounts == pc = "binned" \/ (pc = "returned" /\ ret.kind \in {"value", "ValueError_shape"})

\* C1: a call returns self.badval, and raises nothing, exactly when fewer
\* than 2 rows of its table have visitExposureTime > 5.1, whatever the bins
\* and the weights are.
C1_BadvalIffFewerThanTwo ==
    pc = "returned" => (ret = BadVal <=> Cardinality(Retained) < 2)

\* C1 witness: a table of 2 rows of which one is too short, on a metric whose
\* bins decrease and whose weights do not fit, returned self.badval.
C1_Witness ==
    /\ pc = "returned"
    /\ ret = BadVal
    /\ Len(table) = 2
    /\ Cardinality(Retained) = 1
    /\ bins[1] > bins[2]
    /\ Len(weight) # Len(bins) - 1

\* C2: the rows with visitExposureTime <= 5.1 (5.1 included) are gone before
\* anything else: the count tested against 2, the times the gaps are taken
\* from and the squared errors the median and the MAD are taken from are
\* those of the rows above 5.1, each of these rows once, and the call's
\* answer is the answer for the table without the discarded rows.
C2_DiscardedContributeNothing ==
    /\ Called => Len(dataSlice) = Cardinality(Retained)
    /\ HasGaps =>
          \A v \in Times :
              Cardinality({k \in 1..Len(times) : times[k] = v})
                  = Cardinality({i \in Retained : table[i].t = v})
    /\ HasCounts =>
          \A e \in MagErrs :
              Cardinality({k \in 1..Len(err_var) : err_var[k] = e * e})
                  = Cardinality({i \in Retained : table[i].magErr = e})
    /\ pc = "returned" => ret = Run(RetainedRows, bins, weight, allGaps, maf)

\* C2 witness: a metric was returned for a table of 3 rows of which one has
\* an exposure of exactly 5.1 s.
C2_Witness ==
    /\ pc = "returned"
    /\ ret.kind = "value"
    /\ Len(table) = 3
    /\ Cardinality(Retained) = 2
    /\ \E i \in 1..Len(table) : table[i].exp = 51

\* The differences later minus earlier over the unordered pairs of retained
\* rows: how many of them equal d.
PairsWithGap(d) ==
    Cardinality({p \in Retained \X Retained :
                    p[1] < p[2] /\ Abs(table[p[1]].t - table[p[2]].t) = d})
GapValues == {Abs(a - b) : a \in Times, b \in Times}

\* C3 (as claimed): with allGaps the gaps are n * (n - 1) / 2 values, one
\* per unordered pair of retained rows, each the later time minus the
\* earlier one, duplicate times included.
C3_OneGapPerPair ==
    (HasGaps /\ allGaps) =>
        /\ 2 * Len(dts) = Len(dataSlice) * (Len(dataSlice) - 1)
        /\ \A d \in GapValues :
              Cardinality({k \in 1..Len(dts) : dts[k] = d}) = PairsWithGap(d)

\* C4: without allGaps the gaps are n - 1 values, the differences of the
\* neighbours of the retained times in ascending order, none negative.
C4_ConsecutiveGaps ==
    (HasGaps /\ ~allGaps) =>
        /\ Len(times) = Cardinality(Retained)
        /\ \A k \in 1..(Len(times) - 1) : times[k] <= times[k + 1]
        /\ \A v \in Times :
              Cardinality({k \in 1..Len(times) : times[k] = v})
                  = Cardinality({i \in Retained : table[i].t = v})
        /\ Len(dts) = Cardinality(Retained) - 1
        /\ \A k \in 1..Len(dts) : dts[k] = times[k + 1] - times[k] /\ dts[k] >= 0

\* C4 witness: 3 retained rows handed over out of time order, two of them
\* at the same time.
C4_Witness ==
    /\ pc = "gaps"
    /\ ~allGaps
    /\ Cardinality(Retained) = 3
    /\ table[1].t > table[2].t
    /\ \E k \in 1..Len(dts) : dts[k] = 0
    /\ \E k \in 1..Len(dts) : dts[k] > 0

\* C5: past the histogram step every adjusted count is 0.01 where the true
\* count is 0 and the true count elsewhere, so none is 0 or negative.
C5_Regularization ==
    HasCounts =>
        /\ Len(new_result) = Len(result)
        /\ \A b \in 1..Len(result) :
              /\ result[b] >= 0
              /\ result[b] = 0 => new_result[b] = 1
              /\ result[b] # 0 => new_result[b] = 100 * result[b]
              /\ new_result[b] > 0

\* C5 witness: a histogram with an empty bin and a bin of 2 gaps.
C5_Witness ==
    /\ pc = "binned"
    /\ \E b \in 1..Len(result) : result[b] = 0
    /\ \E b \in 1..Len(result) : result[b] = 2

\* C3 failing input: 2 retained rows at the same time, vectorized method.
C3_DuplicateTimesCase ==
    /\ pc = "gaps"
    /\ allGaps /\ ~maf
    /\ Len(dataSlice) = 2
    /\ dataSlice[1].t = dataSlice[2].t
    /\ dts = <<>>

\* Where a gap g lies with respect to the edges.
FirstEdge == bins[1]
LastEdge == bins[Len(bins)]
NumBins == Len(bins) - 1
InRange(g) == FirstEdge <= g /\ g <= LastEdge
InBin(g, b) == bins[b] <= g /\ (g < bins[b + 1] \/ (b = NumBins /\ g = bins[b + 1]))

\* C6: the histogram counts no gap below the first edge or above the last
\* one, counts a gap equal to the last edge in the last bin, and counts
\* every gap of the range in exactly one bin: the true counts sum to the
\* number of gaps in [first edge, last edge].  The gaps are the values of
\* dts, as stored.
C6_HistogramBinning ==
    HasCounts =>
        /\ Len(result) = NumBins
        /\ \A b \in 1..NumBins :
              result[b] = Cardinality({k \in 1..Len(dts) : InBin(dts[k], b)})
        /\ \A k \in 1..Len(dts) :
              Cardinality({b \in 1..NumBins : InBin(dts[k], b)})
                  = (IF InRange(dts[k]) THEN 1 ELSE 0)
        /\ SumSeq(result) = Cardinality({k \in 1..Len(dts) : InRange(dts[k])})

\* C6 witness: a gap below the first edge, a gap equal to the last edge and
\* a gap above it were binned, and only the second was counted.
C6_Witness ==
    /\ pc = "binned"
    /\ \E k \in 1..Len(dts) : dts[k] < FirstEdge
    /\ \E k \in 1..Len(dts) : dts[k] = LastEdge
    /\ \E k \in 1..Len(dts) : dts[k] > LastEdge
    /\ result[NumBins] = 1
    /\ SumSeq(result) = 1

\* The configuration the data model asks for, as far as C7 needs it.
EdgesAscend == \A i \in 1..(Len(bins) - 1) : bins[i] <= bins[i + 1]
WeightsFit == Len(weight) = Len(bins) - 1
AllGapsOutside == \A k \in 1..Len(dts) : dts[k] < FirstEdge \/ dts[k] > LastEdge

\* C7: with 2 or more retained rows, edges that ascend and one weight per
\* bin, a call whose gaps (the values of dts) all lie outside the edges is
\* no error: every adjusted count is 0.01 and the metric is
\* sum_b weight[b] * 2 * (err_var_mu + 10 * err_var_std).
C7_AllBinsEmpty ==
    (pc = "returned" /\ Cardinality(Retained) >= 2 /\ EdgesAscend /\ WeightsFit
        /\ AllGapsOutside) =>
        /\ ret.kind = "value"
        /\ \A b \in 1..NumBins : result[b] = 0 /\ new_result[b] = 1
        /\ ret.val = [rat |-> 2 * RootDen * SumSeq(weight) * err_var_mu,
                      irr |-> [f \in FreeParts |->
                                  IF f = 1 THEN 10 * RootDen * SumSeq(weight) * err_var_mad
                                  ELSE 0]]

\* C7 witness: such a call with a gap, errors that differ and 2 bins.
C7_Witness ==
    /\ pc = "returned"
    /\ Cardinality(Retained) >= 2
    /\ EdgesAscend /\ WeightsFit /\ AllGapsOutside
    /\ Len(dts) >= 1
    /\ NumBins = 2
    /\ err_var_mad > 0
    /\ ret.kind = "value"

\* C8 (as claimed): a call on a metric whose weights are not one per bin
\* reports an error, whatever the table is.
C8_WeightMismatchIsError ==
    (pc = "returned" /\ Len(weight) # Len(bins) - 1) =>
        ret.kind \in {"ValueError_shape", "ValueError_bins"}

\* C9 (as claimed): a call on a metric whose edges do not strictly increase
\* reports an error, whatever the table is.
C9_EdgesNotIncreasingIsError ==
    (pc = "returned" /\ \E i \in 1..(Len(bins) - 1) : bins[i] >= bins[i + 1]) =>
        ret.kind \in {"ValueError_shape", "ValueError_bins"}

\* The table with every magErr multiplied by k.
Factors == {1, 2, 3}
Scaled(k) == [i \in 1..Len(table) |-> [table[i] EXCEPT !.magErr = k * @]]
RunScaled(k) == Run(Scaled(k), bins, weight, allGaps, maf)

\* C10 (as claimed): whenever a metric is returned, the metric of the table
\* with every magErr multiplied by the same factor >= 1 is not below it,
\* whatever the edges and the weights are.
C10_MonotoneAnyWeights ==
    (pc = "returned" /\ ret.kind = "value") =>
        \A k \in Factors : ~MetricLess(RunScaled(k).val, ret.val)

\* C10 (amended): the call on the scaled table ends as the call on the
\* table does, and when the weights are all >= 0 its metric is not below.
C10_MonotoneNonNegativeWeights ==
    pc = "returned" =>
        \A k \in Factors :
            LET scaled == RunScaled(k)
            IN  /\ scaled.kind = ret.kind
                /\ (ret.kind = "value" /\ \A i \in 1..Len(weight) : weight[i] >= 0) =>
                      MetricLeq(ret.val, scaled.val)

\* C10 witness: weights >= 0, errors that differ, and a larger metric for
\* the doubled errors.
C10_Witness ==
    /\ pc = "returned"
    /\ ret.kind = "value"
    /\ \A i \in 1..Len(weight) : weight[i] >= 0
    /\ err_var_mad > 0
    /\ MetricLess(ret.val, RunScaled(2).val)

\* C10 failing input: one weight per bin, all negative, and a metric that
\* the doubled errors lower.
C10_NegativeWeightsCase ==
    /\ pc = "returned"
    /\ ret.kind = "value"
    /\ WeightsFit
    /\ \A i \in 1..Len(weight) : weight[i] < 0
    /\ MetricLess(RunScaled(2).val, ret.val)

\* The squared errors of the retained rows, and their order statistics
\* stated by rank: the k-th smallest value v has fewer than k values below
\* it and at least k values up to it.
SquaredErrors ==
    [i \in 1..Len(RetainedRows) |-> RetainedRows[i].magErr * RetainedRows[i].magErr]
Below(x, v) == Cardinality({i \in 1..Len(x) : x[i] < v})
UpTo(x, v) == Cardinality({i \in 1..Len(x) : x[i] <= v})
Ranked(x, k) == CHOOSE v \in {x[i] : i \in 1..Len(x)} : Below(x, v) < k /\ k <= UpTo(x, v)
TwiceMedian(x) ==
    IF Len(x) % 2 = 1 THEN 2 * Ranked(x, (Len(x) + 1) \div 2)
    ELSE Ranked(x, Len(x) \div 2) + Ranked(x, Len(x) \div 2 + 1)
FourTimesMad(x) ==
    TwiceMedian([i \in 1..Len(x) |-> Abs(2 * x[i] - TwiceMedian(x))])
SameError(e) == Cardinality(Retained) >= 2 /\ \A i \in Retained : table[i].magErr = e
NoRoots == [f \in FreeParts |-> 0]
Obs(t, e) == [t |-> t, exp |-> 300, magErr |-> e]

\* C11: with ascending edges and one weight per bin, a call on a table whose
\* 2 or more retained rows all have the same magErr e finds err_var_std = 0
\* and returns exactly 2 * e^2 * (sum of the weights), whatever the
\* timestamps, allGaps, maf and the counts of the bins are; the table
\* (0, 1, 5) with e = 0.1, edges [0, 2, 6] and weights [1, 1] gives 0.04.
C11_ConstantError ==
    \A e \in MagErrs :
        (pc = "returned" /\ SameError(e) /\ EdgesAscend /\ WeightsFit) =>
            /\ err_var_mad = 0
            /\ ret = Value([rat |-> 2 * RootDen * 2 * e * e * SumSeq(weight),
                            irr |-> NoRoots])
            /\ Run(<<Obs(0, e), Obs(1, e), Obs(5, e)>>, <<0, 2, 6>>, <<1, 1>>, TRUE, FALSE)
                   = Value([rat |-> 2 * RootDen * 4 * e * e, irr |-> NoRoots])

\* C11 witness: 3 retained rows with the same error 0.2 at 3 different
\* times, whose gaps fill one bin and leave another empty.
C11_Witness ==
    /\ pc = "returned"
    /\ SameError(2)
    /\ Cardinality(Retained) = 3
    /\ EdgesAscend /\ WeightsFit
    /\ times[1] < times[2] /\ times[2] < times[3]
    /\ \E b \in 1..NumBins : new_result[b] >= 100
    /\ \E b \in 1..NumBins : new_result[b] = Regularized
    /\ ret.kind = "value"

\* C12: with ascending edges and one weight per bin, a call with 2 or more
\* retained rows returns sum_b weight[b] * 2 * (mu + std / sqrt(count[b])),
\* count the adjusted counts, mu the median and std = K * MAD the robust
\* deviation of the squared magErr of the retained rows, the same for
\* every bin.
C12_WeightedSum ==
    (pc = "returned" /\ Cardinality(Retained) >= 2 /\ EdgesAscend /\ WeightsFit) =>
        LET mu2 == TwiceMedian(SquaredErrors)
            mad4 == FourTimesMad(SquaredErrors)
        IN  /\ ret.kind = "value"
            /\ err_var_mu = mu2
            /\ err_var_mad = mad4
            /\ ret.val.rat = 2 * RootDen * mu2 * SumSeq(weight)
            /\ \A f \in FreeParts :
                   ret.val.irr[f] =
                       SumSeq([b \in 1..NumBins |->
                                  IF RootFree(new_result[b]) = f
                                  THEN weight[b] * mad4 * RootCoef(new_result[b])
                                  ELSE 0])

\* C12 witness: 2 retained rows whose errors differ, so that the median is
\* a half and the MAD is not 0, with a filled and an empty bin.
C12_Witness ==
    /\ pc = "returned"
    /\ Cardinality(Retained) = 2
    /\ err_var_mu % 2 = 1
    /\ err_var_mad > 0
    /\ EdgesAscend /\ WeightsFit
    /\ \E b \in 1..NumBins : new_result[b] >= 100
    /\ \E b \in 1..NumBins : new_result[b] = Regularized
    /\ ret.kind = "value"

\* C15 (as claimed): with allGaps, the vectorized computation (maf = False)
\* and the MAF loop (maf = True) give the same gaps with the same
\* multiplicities for every table of 2 or more retained rows, equal
\* timestamps included, and hence the same answer.
C15_MafEqualsVectorized ==
    (pc = "returned" /\ Cardinality(Retained) >= 2 /\ allGaps) =>
        /\ Sort(VectorizedGaps(times)) = Sort(MafGaps(times))
        /\ Run(table, bins, weight, TRUE, FALSE) = Run(table, bins, weight, TRUE, TRUE)

\* The case C15 fails on: 2 visits at the same time, whose gap of 0 the MAF
\* loop counts in the first bin and the vectorized computation drops.
C15_DuplicateTimesCase ==
    /\ pc = "returned"
    /\ allGaps
    /\ Cardinality(Retained) = 2
    /\ times[1] = times[2]
    /\ VectorizedGaps(times) = <<>>
    /\ MafGaps(times) = <<0>>
    /\ FirstEdge = 0
    /\ Run(table, bins, weight, TRUE, FALSE) # Run(table, bins, weight, TRUE, TRUE)

\* The table with rows i and i + 1 exchanged.
Swapped(i) ==
    [k \in 1..Len(table) |->
        IF k = i THEN table[i + 1] ELSE IF k = i + 1 THEN table[i] ELSE table[k]]

\* C19: a call returns what the call on the table with any two neighbouring
\* rows exchanged returns (BadValue, error or metric).  Every table being
\* a table of some call, this is the same answer for every permutation of
\* the rows.
C19_OrderIndependent ==
    pc = "returned" =>
        \A i \in 1..(Len(table) - 1) :
            table[i] # table[i + 1] =>
                Run(Swapped(i), bins, weight, allGaps, maf) = ret

\* C19 witness: 3 retained rows given out of time order with 3 different
\* errors, consecutive gaps, a metric returned.
C19_Witness ==
    /\ pc = "returned"
    /\ Len(table) = 3
    /\ Cardinality(Retained) = 3
    /\ table[1].t > table[2].t
    /\ table[3].t < table[1].t
    /\ {table[i].magErr : i \in 1..3} = MagErrs
    /\ ~allGaps
    /\ ret.kind = "value"
    /\ ret.val # ZeroMetric

FailedInParallel == {dbRuns[i] : i \in {k \in 1..Len(dbRuns) : calls[k].rt # ""}}
RerunCalls(r) == {j \in (Len(dbRuns) + 1)..Len(calls) : calls[j].run = r}
FailedAgain(r) == \E j \in RerunCalls(r) : calls[j].rt # ""
Logged(r) == \E i \in 1..Len(logfile) : logfile[i] = r

\* C16 (as claimed): when run_fbs of the WFD script is done, every run that
\* failed in the parallel pass has been rerun exactly once, however many
\* runs failed and in whatever order.
C16_EveryFailedRunRerunOnce ==
    dpc = "done" => \A r \in FailedInParallel : Cardinality(RerunCalls(r)) = 1

\* The case C16 fails on: both of 2 runs failed, the first is rerun and
\* removed, the loop ends, and the second is never rerun.
C16_SkippedRunCase ==
    /\ dpc = "done"
    /\ dbRuns = <<"a", "b">>
    /\ FailedInParallel = {"a", "b"}
    /\ Cardinality(RerunCalls("a")) = 1
    /\ RerunCalls("b") = {}
    /\ failed_runs = <<"b">>

\* C17 (as claimed): when run_fbs of the WFD script is done, a run name is
\* in the log exactly when the run failed in the parallel pass and failed
\* again when rerun.
C17_LoggedIffFailedTwice ==
    dpc = "done" =>
        \A r \in RunNames : Logged(r) <=> (r \in FailedInParallel /\ FailedAgain(r))

\* The cases C17 fails on: the only failed run fails again when rerun and
\* is not logged; of 2 failed runs the second is logged without a rerun.
C17_FailedTwiceNotLoggedCase ==
    /\ dpc = "done"
    /\ dbRuns = <<"a">>
    /\ FailedInParallel = {"a"}
    /\ FailedAgain("a")
    /\ logfile = <<>>

C17_LoggedWithoutRerunCase ==
    /\ dpc = "done"
    /\ dbRuns = <<"a", "b">>
    /\ FailedInParallel = {"a", "b"}
    /\ RerunCalls("b") = {}
    /\ ~FailedAgain("a")
    /\ logfile = <<"b">>

\* C18 (as claimed): a call of run_sf_ddf (or run_mg) that has returned has
\* left open no OpsimDatabase and no ResultsDb it connected.
C18_ConnectionsClosed ==
    \A k \in 1..Len(calls) :
        calls[k].at = "returned" =>
            calls[k].opSimDb # "open" /\ calls[k].resultDb # "open"

\* The cases C18 fails on: the 'No DDF' return ('' returned, both dbs
\* open), and an exception after connect_dbs (the run name returned, both
\* dbs open).
C18_NoDDFCase ==
    \E k \in 1..Len(calls) :
        /\ calls[k].at = "returned"
        /\ calls[k].rt = ""
        /\ calls[k].opSimDb = "open"
        /\ calls[k].resultDb = "open"

C18_ExceptionCase ==
    \E k \in 1..Len(calls) :
        /\ calls[k].at = "returned"
        /\ calls[k].rt = calls[k].run
        /\ calls[k].opSimDb = "open"
        /\ calls[k].resultDb = "open"

====
